---- MODULE Spec2Model ----
(***************************************************************************)
(* Model of the requirement audit engine of the Virtual Academic Advisor:  *)
(* engine/loader.py (catalog normaliser) and engine/audit.py (audit).      *)
(*                                                                         *)
(* Strings are sequences of one-character strings, so that upper(),        *)
(* strip(), startswith() and the regular expressions of the loader are     *)
(* computed character by character.                                        *)
(***************************************************************************)
EXTENDS Integers, Sequences, FiniteSets, TLC

VARIABLES raw, credits, files, loaded, profile, report

vars == <<raw, credits, files, loaded, profile, report>>

(***************************************************************************)
(* Characters and the str methods the code uses                            *)
(***************************************************************************)
DigitChars == <<"0", "1", "2", "3", "4", "5", "6", "7", "8", "9">>

LowerChars == <<"a", "b", "c", "d", "e", "f", "g", "h", "i", "j", "k", "l", "m",
                "n", "o", "p", "q", "r", "s", "t", "u", "v", "w", "x", "y", "z">>

UpperChars == <<"A", "B", "C", "D", "E", "F", "G", "H", "I", "J", "K", "L", "M",
                "N", "O", "P", "Q", "R", "S", "T", "U", "V", "W", "X", "Y", "Z">>

Chars(seq) == {seq[i] : i \in 1..Len(seq)}

DigitSet == Chars(DigitChars)

LowerSet == Chars(LowerChars)

UpperSet == Chars(UpperChars)

\* the value of each digit character
DigitMap == [c \in DigitSet |-> (CHOOSE i \in 1..10 : DigitChars[i] = c) - 1]

\* the upper-case form of each lower-case letter, and the converse
UpperMap == [c \in LowerSet |-> UpperChars[CHOOSE i \in 1..26 : LowerChars[i] = c]]

LowerMap == [c \in UpperSet |-> LowerChars[CHOOSE i \in 1..26 : UpperChars[i] = c]]

IsDigit(c) == c \in DigitSet

DigitVal(c) == DigitMap[c]

\* \s (the whitespace that occurs in the inputs)
IsSpace(c) == c \in {" ", "\t"}

IsAlpha(c) == c \in LowerSet \/ c \in UpperSet

UpperChar(c) == IF c \in LowerSet THEN UpperMap[c] ELSE c

LowerChar(c) == IF c \in UpperSet THEN LowerMap[c] ELSE c

\* str.upper()
Upper(s) == [i \in 1..Len(s) |-> UpperChar(s[i])]

\* str.startswith(p)
StartsWith(s, p) == Len(p) <= Len(s) /\ SubSeq(s, 1, Len(p)) = p

RECURSIVE LStrip(_)
LStrip(s) == IF s # <<>> /\ IsSpace(Head(s)) THEN LStrip(Tail(s)) ELSE s

RECURSIVE RStrip(_)
RStrip(s) == IF s # <<>> /\ IsSpace(s[Len(s)]) THEN RStrip(SubSeq(s, 1, Len(s) - 1)) ELSE s

\* str.strip()
Strip(s) == RStrip(LStrip(s))

(***************************************************************************)
(* Regular-expression scanning.  A position is an index 1..Len(s)+1; an    *)
(* end position of 0 means "no match here".                                *)
(***************************************************************************)
\* \d+ is greedy: end of the maximal digit run that starts at i (i if none)
RECURSIVE DigitsEnd(_, _)
DigitsEnd(s, i) == IF i <= Len(s) /\ IsDigit(s[i]) THEN DigitsEnd(s, i + 1) ELSE i

\* \s* is greedy: end of the maximal whitespace run that starts at i
RECURSIVE SpacesEnd(_, _)
SpacesEnd(s, i) == IF i <= Len(s) /\ IsSpace(s[i]) THEN SpacesEnd(s, i + 1) ELSE i

\* \d+(?:\.\d+)? matched at i: the end position, 0 when s[i] is not a digit
NumberEnd(s, i) ==
    IF ~(i <= Len(s) /\ IsDigit(s[i])) THEN 0
    ELSE LET j == DigitsEnd(s, i)
         IN  IF j + 1 <= Len(s) /\ s[j] = "." /\ IsDigit(s[j + 1])
             THEN DigitsEnd(s, j + 1)
             ELSE j

\* a literal word matched at i under re.IGNORECASE (word given in lower case)
WordAt(s, i, word) ==
    /\ i + Len(word) - 1 <= Len(s)
    /\ \A k \in 1..Len(word) : LowerChar(s[i + k - 1]) = word[k]

CreditWord == <<"c", "r", "e", "d", "i", "t">>

\* \s+credits? matched at i
SpaceCreditAt(s, i) == SpacesEnd(s, i) > i /\ WordAt(s, SpacesEnd(s, i), CreditWord)

\* the pattern without its optional range group
RangeEnd_NoRange(s, i) == 0

\* (?:\s*-\s*\d+(?:\.\d+)?)? taken at i: end position of the range, 0 if absent
RangeEnd(s, i) ==
    LET d == SpacesEnd(s, i)
    IN  IF d <= Len(s) /\ s[d] = "-" THEN NumberEnd(s, SpacesEnd(s, d + 1)) ELSE 0

\* _credits_re matched at start position i (loader.py line 50)
CreditsReAt(s, i) ==
    LET j == NumberEnd(s, i)
    IN  /\ j # 0
        /\ \/ (RangeEnd(s, j) # 0 /\ SpaceCreditAt(s, RangeEnd(s, j)))
           \/ SpaceCreditAt(s, j)

\* re.search: the leftmost start position with a match, 0 when there is none
RECURSIVE CreditsReSearch(_, _)
CreditsReSearch(s, i) ==
    IF i > Len(s) THEN 0
    ELSE IF CreditsReAt(s, i) THEN i
    ELSE CreditsReSearch(s, i + 1)

RECURSIVE NumericReSearch(_, _)
NumericReSearch(s, i) ==
    IF i > Len(s) THEN 0
    ELSE IF NumberEnd(s, i) # 0 THEN i
    ELSE NumericReSearch(s, i + 1)

\* m.group(1) for a number that starts at i
NumberGroup(s, i) == SubSeq(s, i, NumberEnd(s, i) - 1)

(***************************************************************************)
(* int(float(text)) for a text of the form digits[.digits]                 *)
(***************************************************************************)
RECURSIVE DigitsValue(_)
DigitsValue(d) ==
    IF d = <<>> THEN 0 ELSE 10 * DigitsValue(SubSeq(d, 1, Len(d) - 1)) + DigitVal(d[Len(d)])

RECURSIVE Pow10(_)
Pow10(n) == IF n = 0 THEN 1 ELSE 10 * Pow10(n - 1)

\* float(text) as a fraction [num, den] with den a power of ten
FloatOf(t) ==
    LET ip == DigitsEnd(t, 1)
        frac == IF ip <= Len(t) THEN SubSeq(t, ip + 1, Len(t)) ELSE <<>>
    IN  [num |-> DigitsValue(SubSeq(t, 1, ip - 1)) * Pow10(Len(frac)) + DigitsValue(frac),
         den |-> Pow10(Len(frac))]

\* int(x) of a float: truncation toward zero
IntOfFloat(f) ==
    IF f.num >= 0 THEN f.num \div f.den ELSE -((-f.num) \div f.den)

(***************************************************************************)
(* Raw credit values: None, a JSON number (in tenths), or a text           *)
(***************************************************************************)
NoneVal == [k |-> "none", n |-> 0, s |-> <<>>]

Num(tenths) == [k |-> "num", n |-> tenths, s |-> <<>>]

Str(s) == [k |-> "str", n |-> 0, s |-> s]

\* _parse_credits (loader.py lines 69-95)
ParseCredits(r) ==
    IF r.k = "none" THEN 0
    ELSE IF r.k = "num" THEN IntOfFloat([num |-> r.n, den |-> 10])
    ELSE LET s == Strip(r.s)
             m == CreditsReSearch(s, 1)
             m2 == NumericReSearch(s, 1)
         IN  IF s = <<>> THEN 0
             ELSE IF m # 0 THEN IntOfFloat(FloatOf(NumberGroup(s, m)))
             ELSE IF m2 # 0 THEN IntOfFloat(FloatOf(NumberGroup(s, m2)))
             ELSE 0

(***************************************************************************)
(* Optional text fields of a raw record: None or a str                     *)
(***************************************************************************)
\* truthiness of an optional text / raw number: None, "" and 0 are falsy
Truthy(v) == (v.k = "str" /\ v.s # <<>>) \/ (v.k = "num" /\ v.n # 0)

\* (a or b) for optional texts, as the text it yields ("" when both are falsy)
TextOr(a, b) == IF Truthy(a) THEN a.s ELSE IF Truthy(b) THEN b.s ELSE <<>>

\* [A-Za-z]* : end of the maximal letter run that starts at i
RECURSIVE LettersEnd(_, _)
LettersEnd(s, i) == IF i <= Len(s) /\ IsAlpha(s[i]) THEN LettersEnd(s, i + 1) ELSE i

\* [A-Za-z]{2,4}\s*\d{3} matched at i: the position after the third digit, 0 if no match
CodeHeadEnd(s, i) ==
    LET l == LettersEnd(s, i)
        d == SpacesEnd(s, l)
    IN  IF /\ l - i >= 2
           /\ l - i <= 4
           /\ d + 2 <= Len(s)
           /\ IsDigit(s[d]) /\ IsDigit(s[d + 1]) /\ IsDigit(s[d + 2])
        THEN d + 3
        ELSE 0

\* _course_code_re matched at i (loader.py line 49): end position, 0 if no match
CourseCodeReAt(s, i) ==
    LET e == CodeHeadEnd(s, i)
    IN  IF e = 0 THEN 0
        ELSE IF e <= Len(s) /\ IsAlpha(s[e]) THEN e + 1
        ELSE e

RECURSIVE CourseCodeReSearch(_, _)
CourseCodeReSearch(s, i) ==
    IF i > Len(s) THEN 0
    ELSE IF CourseCodeReAt(s, i) # 0 THEN i
    ELSE CourseCodeReSearch(s, i + 1)

\* _extract_code (loader.py lines 53-60)
ExtractCode(raw_code, title) ==
    IF Truthy(raw_code) THEN Upper(Strip(raw_code.s))
    ELSE IF title = <<>> THEN <<>>
    ELSE LET m == CourseCodeReSearch(title, 1)
         IN  IF m # 0 THEN Upper(SubSeq(title, m, CourseCodeReAt(title, m) - 1))
             ELSE Upper(Strip(title))

\* [:\-\u2013]; the en dash is written "ndash" (the module is ASCII)
SeparatorChars == {":", "-", "ndash"}

\* _extract_name (loader.py lines 62-67): drop a leading "<code> :" and strip
ExtractName(title) ==
    IF title = <<>> THEN <<>>
    ELSE LET e == CourseCodeReAt(title, 1)
             p == SpacesEnd(title, e)
         IN  IF e # 0 /\ p <= Len(title) /\ title[p] \in SeparatorChars
             THEN Strip(SubSeq(title, SpacesEnd(title, p + 1), Len(title)))
             ELSE Strip(title)

(***************************************************************************)
(* Source files and the JSON documents in them.  A document is described   *)
(* by its top-level kind, its number of entries (for truthiness) and the   *)
(* content each loader reads from it.                                      *)
(***************************************************************************)
Json(kind, size, items, blocks, pol, has_min, min) ==
    [kind |-> kind, size |-> size, items |-> items, blocks |-> blocks,
     pol |-> pol, has_min |-> has_min, min |-> min]

\* the {} that load_json returns for a missing or unparsable file
EmptyDict == Json("dict", 0, <<>>, <<>>, "absent", FALSE, 0)

\* a JSON list of course records
CourseList(items) == Json("list", Len(items), items, <<>>, "absent", FALSE, 0)

\* a JSON object {"blocks": {...}}; blocks is the ordered list of (name, requirements)
DegreeDoc(blocks) == Json("dict", 1, <<>>, blocks, "absent", FALSE, 0)

\* a JSON object {"policies": {"min_total_credits": min}}
PolicyDoc(min) == Json("dict", 1, <<>>, <<>>, "dict", TRUE, min)

\* a JSON object {"policies": {}}
PolicyDocNoMin == Json("dict", 1, <<>>, <<>>, "dict", FALSE, 0)

\* a non-empty JSON object that has none of the keys the loaders read
OtherDict == Json("dict", 1, <<>>, <<>>, "absent", FALSE, 0)

\* a non-empty JSON list of numbers
NumberList == Json("list", 1, <<[isdict |-> FALSE]>>, <<>>, "absent", FALSE, 0)

\* a non-zero JSON number
Scalar == Json("scalar", 1, <<>>, <<>>, "absent", FALSE, 0)

JsonNull == Json("null", 0, <<>>, <<>>, "absent", FALSE, 0)

File(st, json) == [st |-> st, json |-> json]

MissingFile == File("missing", EmptyDict)

UnreadableFile == File("unreadable", EmptyDict)

BadJsonFile == File("badjson", EmptyDict)

OkFile(json) == File("ok", json)

\* bool(value) of a loaded document
JsonTruthy(j) == j.kind # "null" /\ j.size > 0

\* load_json (loader.py lines 39-47): {} unless the file exists, opens and parses
LoadJson(f) == IF f.st = "ok" THEN f.json ELSE EmptyDict

(***************************************************************************)
(* load_courses                                                            *)
(***************************************************************************)
\* the Course built from one raw record (loader.py lines 125-143)
CourseOf(c) ==
    LET title_field == TextOr(c.title, c.name)
        extracted == ExtractName(title_field)
    IN  [code |-> ExtractCode(c.code, title_field),
         name |-> IF Truthy(c.name) THEN c.name.s
                  ELSE IF extracted # <<>> THEN extracted
                  ELSE title_field,
         credits |-> ParseCredits(c.credits),
         description |-> TextOr(c.description, NoneVal)]

\* the catalog is a function from codes to Course
NoCourses == [code \in {} |-> 0]

\* a merge that keeps the first record of a code
Store_FirstWins(courses, course) ==
    IF course.code \in DOMAIN courses THEN courses
    ELSE [code \in (DOMAIN courses) \cup {course.code} |->
              IF code = course.code THEN course ELSE courses[code]]

\* courses[code] = course (loader.py line 144)
Store(courses, course) ==
    [code \in (DOMAIN courses) \cup {course.code} |->
        IF code = course.code THEN course ELSE courses[code]]

\* the loop over the records of one file (loader.py lines 123-144)
RECURSIVE LoadRecords(_, _)
LoadRecords(courses, items) ==
    IF items = <<>> THEN courses
    ELSE LET course == CourseOf(Head(items))
         IN  IF course.code = <<>> THEN LoadRecords(courses, Tail(items))
             ELSE LoadRecords(Store(courses, course), Tail(items))

\* iterating a loaded document and calling .get on each element raises unless
\* the document is a list of objects
CourseDocRaises(j) ==
    JsonTruthy(j) /\ (j.kind # "list" \/ \E k \in 1..Len(j.items) : ~j.items[k].isdict)

\* load_courses (loader.py lines 113-145) over the files in COURSE_FILES order
RECURSIVE LoadCoursesFrom(_, _)
LoadCoursesFrom(courses, fs) ==
    IF fs = <<>> THEN [raised |-> FALSE, val |-> courses]
    ELSE LET j == LoadJson(Head(fs))
         IN  IF ~JsonTruthy(j) THEN LoadCoursesFrom(courses, Tail(fs))
             ELSE IF CourseDocRaises(j) THEN [raised |-> TRUE, val |-> NoCourses]
             ELSE LoadCoursesFrom(LoadRecords(courses, j.items), Tail(fs))

LoadCourses(fs) == LoadCoursesFrom(NoCourses, fs.course_files)

(***************************************************************************)
(* load_degree_requirements and load_policies                              *)
(***************************************************************************)
\* the text is an integer literal for int(): optional sign, then digits only
IsIntLiteral(t) ==
    LET body == IF t # <<>> /\ Head(t) \in {"+", "-"} THEN Tail(t) ELSE t
    IN  body # <<>> /\ \A k \in 1..Len(body) : IsDigit(body[k])

\* int(text) for an integer literal
IntOfText(t) ==
    IF Head(t) = "-" THEN -DigitsValue(Tail(t))
    ELSE IF Head(t) = "+" THEN DigitsValue(Tail(t))
    ELSE DigitsValue(t)

\* int(r.get("credits") or 0), 0 on an exception (loader.py lines 159-162)
ReqCredits(v) ==
    IF ~Truthy(v) THEN 0
    ELSE IF v.k = "num" THEN IntOfFloat([num |-> v.n, den |-> 10])
    ELSE IF IsIntLiteral(Strip(v.s)) THEN IntOfText(Strip(v.s))
    ELSE 0

Unnamed == <<"U", "n", "n", "a", "m", "e", "d">>

\* the Requirement built from one raw record (loader.py lines 163-174); options
\* and allowed_prefixes pass through (None is modelled as the empty list: the
\* audit only tests their truthiness)
RequirementOf(r) ==
    [name |-> IF TextOr(r.name, r.course) # <<>> THEN TextOr(r.name, r.course) ELSE Unnamed,
     credits |-> ReqCredits(r.credits),
     options |-> r.options,
     allowed_prefixes |-> r.allowed_prefixes]

\* the RequirementBlock built from one entry of "blocks" (loader.py lines 155-175)
BlockOf(b) ==
    [name |-> b.name,
     requirements |-> [k \in 1..Len(b.requirements) |-> RequirementOf(b.requirements[k])]]

\* load_degree_requirements (loader.py lines 147-176); data.get raises when the
\* document is truthy and not an object
LoadDegreeRequirements(fs) ==
    LET data == LoadJson(fs.degree)
    IN  IF ~JsonTruthy(data) THEN [raised |-> FALSE, val |-> <<>>]
        ELSE IF data.kind # "dict" THEN [raised |-> TRUE, val |-> <<>>]
        ELSE [raised |-> FALSE,
              val |-> [k \in 1..Len(data.blocks) |-> BlockOf(data.blocks[k])]]

\* load_policies (loader.py lines 182-184): load_json(POLICIES_FILE) or {}
LoadPolicies(fs) ==
    LET data == LoadJson(fs.policies)
    IN  [raised |-> FALSE, val |-> IF JsonTruthy(data) THEN data ELSE EmptyDict]

(***************************************************************************)
(* audit_student                                                           *)
(***************************************************************************)
Range(seq) == {seq[k] : k \in 1..Len(seq)}

\* a completed set built without upper()
CompletedSet_NoUpper(p) == Range(p.courses_done)

\* completed = set(c.upper() for c in profile.courses_done) (audit.py line 19)
CompletedSet(p) == {Upper(c) : c \in Range(p.courses_done)}

\* the loop of audit.py lines 24-26
RECURSIVE TotalCredits(_, _)
TotalCredits(completed, courses) ==
    IF completed = {} THEN 0
    ELSE LET code == CHOOSE c \in completed : TRUE
         IN  (IF code \in DOMAIN courses THEN courses[code].credits ELSE 0)
             + TotalCredits(completed \ {code}, courses)

\* audit.py line 41
OptionMatches(req, completed) ==
    req.options # <<>> /\ \E k \in 1..Len(req.options) : Upper(req.options[k]) \in completed

\* all() written for any()
NameMatches_All(req, completed) == \A code \in completed : Upper(req.name) = code

\* audit.py line 46
NameMatches(req, completed) == \E code \in completed : Upper(req.name) = code

\* a prefix strategy that accepts a single matching course only
PrefixMatch_Single(req, order) ==
    LET match == SelectSeq(order, LAMBDA c :
                     \E k \in 1..Len(req.allowed_prefixes) : StartsWith(c, req.allowed_prefixes[k]))
    IN  IF Len(match) = 1 THEN match ELSE <<>>

\* match = [c for c in completed if any(c.startswith(p) ...)] (audit.py line 52);
\* order is the iteration order of the completed set
PrefixMatch(req, order) ==
    SelectSeq(order, LAMBDA c :
        \E k \in 1..Len(req.allowed_prefixes) : StartsWith(c, req.allowed_prefixes[k]))

\* "<name> (<code>)"
Descriptor(name, code) == name \o <<" ", "(">> \o code \o <<")">>

Entry(satisfied, text) == [satisfied |-> satisfied, text |-> text]

\* the chain with the prefix strategy tried before the name strategy
ReqEntry_PrefixFirst(req, completed, order) ==
    IF OptionMatches(req, completed) THEN Entry(TRUE, req.name)
    ELSE IF req.allowed_prefixes # <<>> /\ PrefixMatch(req, order) # <<>>
         THEN Entry(TRUE, Descriptor(req.name, PrefixMatch(req, order)[1]))
    ELSE IF NameMatches(req, completed) THEN Entry(TRUE, req.name)
    ELSE Entry(FALSE, req.name)

\* the if/elif chain of audit.py lines 38-59: whether the requirement is
\* satisfied and the text recorded for it
ReqEntry(req, completed, order) ==
    IF OptionMatches(req, completed) THEN Entry(TRUE, req.name)
    ELSE IF NameMatches(req, completed) THEN Entry(TRUE, req.name)
    ELSE IF req.allowed_prefixes # <<>>
         THEN IF PrefixMatch(req, order) # <<>>
              THEN Entry(TRUE, Descriptor(req.name, PrefixMatch(req, order)[1]))
              ELSE Entry(FALSE, req.name)
    ELSE Entry(FALSE, req.name)

BlockStatus(completed, missing, credits_required, credits_done) ==
    [completed |-> completed, missing |-> missing,
     credits_required |-> credits_required, credits_done |-> credits_done]

\* a prefix branch that appends to completed but leaves satisfied False
StepReq_FlagNotSet(st, req, completed, order) ==
    LET e == ReqEntry(req, completed, order)
        flag == e.satisfied /\ e.text = req.name
    IN  BlockStatus(IF e.satisfied THEN Append(st.completed, e.text) ELSE st.completed,
                    IF ~flag THEN Append(st.missing, req.name) ELSE st.missing,
                    st.credits_required,
                    IF flag THEN st.credits_done + req.credits ELSE st.credits_done)

\* credit counting that is not guarded by satisfied
StepReq_CountsAll(st, req, completed, order) ==
    LET e == ReqEntry(req, completed, order)
    IN  BlockStatus(IF e.satisfied THEN Append(st.completed, e.text) ELSE st.completed,
                    IF ~e.satisfied THEN Append(st.missing, req.name) ELSE st.missing,
                    st.credits_required,
                    st.credits_done + req.credits)

\* credits added in the matching branch and again at the end of the loop body
StepReq_CountsTwice(st, req, completed, order) ==
    LET e == ReqEntry(req, completed, order)
    IN  BlockStatus(IF e.satisfied THEN Append(st.completed, e.text) ELSE st.completed,
                    IF ~e.satisfied THEN Append(st.missing, req.name) ELSE st.missing,
                    st.credits_required,
                    IF e.satisfied THEN st.credits_done + 2 * req.credits ELSE st.credits_done)

\* one iteration of the loop over block.requirements (audit.py lines 37-63)
StepReq(st, req, completed, order) ==
    LET e == ReqEntry(req, completed, order)
    IN  BlockStatus(IF e.satisfied THEN Append(st.completed, e.text) ELSE st.completed,
                    IF ~e.satisfied THEN Append(st.missing, req.name) ELSE st.missing,
                    st.credits_required,
                    IF e.satisfied THEN st.credits_done + req.credits ELSE st.credits_done)

RECURSIVE SumCredits(_)
SumCredits(reqs) == IF reqs = <<>> THEN 0 ELSE Head(reqs).credits + SumCredits(Tail(reqs))

RECURSIVE AuditReqs(_, _, _, _)
AuditReqs(st, reqs, completed, order) ==
    IF reqs = <<>> THEN st
    ELSE AuditReqs(StepReq(st, Head(reqs), completed, order), Tail(reqs), completed, order)

\* the body of the loop over degree_blocks (audit.py lines 29-65)
AuditBlock(block, completed, order) ==
    [name |-> block.name,
     status |-> AuditReqs(BlockStatus(<<>>, <<>>, SumCredits(block.requirements), 0),
                          block.requirements, completed, order)]

DefaultMinTotalCredits == 127

\* load_policies().get("policies", {}) raises when the document is not an
\* object (audit.py line 17)
PoliciesRaise(doc) == doc.kind # "dict"

MinTotalCredits(doc) ==
    IF doc.pol = "dict" /\ doc.has_min THEN doc.min ELSE DefaultMinTotalCredits

Report(set, raised, year, done, required, blocks) ==
    [set |-> set, raised |-> raised, catalog_year |-> year, credits_done |-> done,
     credits_required |-> required, blocks |-> blocks]

NoReport == Report(FALSE, FALSE, "", 0, 0, <<>>)

Raised == Report(TRUE, TRUE, "", 0, 0, <<>>)

\* audit_student after its three loads (audit.py lines 19-73); order is the
\* iteration order of the completed set, which the language leaves to the
\* implementation
AuditWith(courses, degree_blocks, policies, p, order) ==
    LET completed == CompletedSet(p)
    IN  IF courses.raised \/ degree_blocks.raised \/ PoliciesRaise(policies.val) THEN Raised
        ELSE Report(TRUE, FALSE, p.catalog_year,
                    TotalCredits(completed, courses.val),
                    MinTotalCredits(policies.val),
                    [k \in 1..Len(degree_blocks.val) |->
                        AuditBlock(degree_blocks.val[k], completed, order)])

(***************************************************************************)
(* Texts used as inputs                                                    *)
(***************************************************************************)
\* "CSCI 111"
CSCI111 == <<"C", "S", "C", "I", " ", "1", "1", "1">>

\* "csci 111"
csci111 == <<"c", "s", "c", "i", " ", "1", "1", "1">>

\* "THEA 101"
THEA101 == <<"T", "H", "E", "A", " ", "1", "0", "1">>

\* "MUS 102"
MUS102 == <<"M", "U", "S", " ", "1", "0", "2">>

\* "WRIT 101"
WRIT101 == <<"W", "R", "I", "T", " ", "1", "0", "1">>

\* "WRIT 100"
WRIT100 == <<"W", "R", "I", "T", " ", "1", "0", "0">>

\* "writ 101"
writ101 == <<"w", "r", "i", "t", " ", "1", "0", "1">>

\* "mus 102"
mus102 == <<"m", "u", "s", " ", "1", "0", "2">>

\* "CSCI 487"
CSCI487 == <<"C", "S", "C", "I", " ", "4", "8", "7">>

\* "Fine Arts"
FineArts == <<"F", "i", "n", "e", " ", "A", "r", "t", "s">>

\* "First-Year Writing I"
Writing == <<"F", "i", "r", "s", "t", "-", "Y", "e", "a", "r", " ", "W", "r", "i", "t", "i", "n", "g", " ", "I">>

\* "MUS"
MUS == <<"M", "U", "S">>

\* "THEA"
THEA == <<"T", "H", "E", "A">>

\* "3"
Three == <<"3">>

\* "3 credits"
ThreeCredits == <<"3", " ", "c", "r", "e", "d", "i", "t", "s">>

\* "3-4 credits"
RangeCredits == <<"3", "-", "4", " ", "c", "r", "e", "d", "i", "t", "s">>

\* "3.5 credits"
HalfCredits == <<"3", ".", "5", " ", "c", "r", "e", "d", "i", "t", "s">>

\* "see advisor"
SeeAdvisor == <<"s", "e", "e", " ", "a", "d", "v", "i", "s", "o", "r">>

\* "3 to 4 credits"
ToCredits == <<"3", " ", "t", "o", " ", "4", " ", "c", "r", "e", "d", "i", "t", "s">>

\* "1.2.3 credits"
DottedCredits == <<"1", ".", "2", ".", "3", " ", "c", "r", "e", "d", "i", "t", "s">>

\* "Csci 111: Computer Science I"
TitleCsci111 == <<"C", "s", "c", "i", " ", "1", "1", "1", ":", " ", "C", "o", "m", "p", "u", "t", "e", "r", " ", "S", "c", "i", "e", "n", "c", "e", " ", "I">>

\* "Computer Science I"
ComputerScienceI == <<"C", "o", "m", "p", "u", "t", "e", "r", " ", "S", "c", "i", "e", "n", "c", "e", " ", "I">>

\* " math 261 "
math261 == <<" ", "m", "a", "t", "h", " ", "2", "6", "1", " ">>

\* "  "
Blank == <<" ", " ">>

\* "d"
Desc == <<"d">>

(***************************************************************************)
(* Bounded inputs                                                          *)
(***************************************************************************)
MaxFrags == 5

MaxTenths == 45

MaxDone == 2

MaxReqs == 2

MaxRecs == 2

\* all sequences over S of length at most n
RECURSIVE SeqsUpTo(_, _)
SeqsUpTo(S, n) ==
    IF n = 0 THEN {<<>>}
    ELSE LET shorter == SeqsUpTo(S, n - 1)
         IN  shorter \cup {Append(q, x) : q \in {r \in shorter : Len(r) = n - 1}, x \in S}

RECURSIVE Concat(_)
Concat(parts) == IF parts = <<>> THEN <<>> ELSE Head(parts) \o Concat(Tail(parts))

\* pieces that credit texts are assembled from
Fragments == {<<"3">>, <<"4">>, <<".">>, <<"-">>, <<" ">>, <<"C", "r", "e", "d", "i", "t", "s">>}

CreditTexts ==
    {Concat(parts) : parts \in SeqsUpTo(Fragments, MaxFrags)}
        \cup {ThreeCredits, RangeCredits, HalfCredits, SeeAdvisor, ToCredits, DottedCredits}

RawCredits ==
    {NoneVal} \cup {Num(n) : n \in -MaxTenths..MaxTenths} \cup {Str(s) : s \in CreditTexts}

\* raw course records
RawCourse(code, title, name, cred, description) ==
    [isdict |-> TRUE, code |-> code, title |-> title, name |-> name,
     credits |-> cred, description |-> description]

RecPool ==
    {RawCourse(Str(csci111), NoneVal, Str(ComputerScienceI), Str(ThreeCredits), Str(Desc)),
     RawCourse(NoneVal, Str(TitleCsci111), NoneVal, Num(40), NoneVal),
     RawCourse(Str(math261), NoneVal, NoneVal, Str(RangeCredits), NoneVal),
     RawCourse(Str(Blank), Str(TitleCsci111), NoneVal, Num(30), NoneVal)}

CourseFileStates ==
    {MissingFile, UnreadableFile, BadJsonFile, OkFile(JsonNull), OkFile(OtherDict),
     OkFile(NumberList), OkFile(Scalar)}
        \cup {OkFile(CourseList(recs)) : recs \in SeqsUpTo(RecPool, MaxRecs)}

\* a catalog with CSCI 111 (3 credits) and MATH 261 (3 credits)
CatalogA ==
    OkFile(CourseList(<<RawCourse(Str(CSCI111), NoneVal, NoneVal, Num(30), NoneVal)>>))

CatalogB ==
    OkFile(CourseList(<<RawCourse(Str(math261), NoneVal, NoneVal, Str(ThreeCredits), NoneVal),
                        RawCourse(Str(MUS102), NoneVal, NoneVal, Num(20), NoneVal)>>))

\* raw requirement records
RawReq(name, course, cred, options, allowed_prefixes) ==
    [name |-> name, course |-> course, credits |-> cred, options |-> options,
     allowed_prefixes |-> allowed_prefixes]

ReqName == RawReq(Str(CSCI111), NoneVal, Num(30), <<>>, <<>>)

ReqOptions == RawReq(Str(Writing), NoneVal, Num(30), <<WRIT100, writ101>>, <<>>)

ReqPrefixes == RawReq(Str(FineArts), NoneVal, Str(Three), <<>>, <<MUS, THEA>>)

ReqAll == RawReq(Str(mus102), NoneVal, Num(40), <<THEA101>>, <<MUS>>)

ReqNegative == RawReq(NoneVal, Str(CSCI487), Num(-30), <<>>, <<>>)

ReqPool == {ReqName, ReqPrefixes, ReqAll, ReqNegative}

RawBlock(name, requirements) == [name |-> name, requirements |-> requirements]

\* a fixed second block
GenEd == RawBlock("General Education", <<ReqOptions, ReqPrefixes>>)

DegreeDocs ==
    {DegreeDoc(<<RawBlock("Core", reqs), GenEd>>) : reqs \in SeqsUpTo(ReqPool, MaxReqs)}

DegreeA == DegreeDoc(<<RawBlock("Core", <<ReqName, RawReq(Str(CSCI487), NoneVal, Num(30), <<>>, <<>>)>>), GenEd>>)

DegreeFileStates ==
    {MissingFile, UnreadableFile, BadJsonFile, OkFile(JsonNull), OkFile(NumberList),
     OkFile(OtherDict), OkFile(DegreeA)}

PolicyFileStates ==
    {MissingFile, UnreadableFile, BadJsonFile, OkFile(JsonNull), OkFile(NumberList),
     OkFile(OtherDict), OkFile(PolicyDoc(120)), OkFile(PolicyDocNoMin)}

Files(course_files, degree, policies) ==
    [course_files |-> course_files, degree |-> degree, policies |-> policies]

DonePool == {csci111, CSCI111, THEA101, MUS102, WRIT101}

Profiles ==
    {[catalog_year |-> "2024-2025", courses_done |-> done] : done \in SeqsUpTo(DonePool, MaxDone)}

\* all orders in which a set can be iterated
RECURSIVE Orders(_)
Orders(S) ==
    IF S = {} THEN {<<>>}
    ELSE UNION {{<<x>> \o q : q \in Orders(S \ {x})} : x \in S}

(***************************************************************************)
(* State machines                                                          *)
(***************************************************************************)
NotParsed == [set |-> FALSE, val |-> 0]

NothingLoaded ==
    [courses |-> [set |-> FALSE, raised |-> FALSE, val |-> NoCourses],
     degree_blocks |-> [set |-> FALSE, raised |-> FALSE, val |-> <<>>],
     policies |-> [set |-> FALSE, raised |-> FALSE, val |-> EmptyDict]]

NoFiles == Files(<<MissingFile, MissingFile>>, MissingFile, MissingFile)

NoProfile == [catalog_year |-> "2024-2025", courses_done |-> <<>>]

Loaded(r) == [set |-> TRUE, raised |-> r.raised, val |-> r.val]

\* ---- audit_student over well-formed or missing sources ----
AuditFiles ==
    {Files(<<CatalogA, CatalogB>>, OkFile(d), MissingFile) : d \in DegreeDocs}
        \cup {Files(cs, OkFile(DegreeA), pol) :
                cs \in {<<MissingFile, MissingFile>>, <<UnreadableFile, BadJsonFile>>,
                        <<CatalogA, MissingFile>>, <<CatalogB, CatalogA>>},
                pol \in {MissingFile, OkFile(PolicyDoc(120)), OkFile(PolicyDocNoMin)}}

Init ==
    /\ files \in AuditFiles
    /\ profile \in Profiles
    /\ report = NoReport
    /\ loaded = NothingLoaded
    /\ raw = NoneVal
    /\ credits = NotParsed

AuditStudentStep ==
    /\ ~report.set
    /\ LET courses == LoadCourses(files)
           degree_blocks == LoadDegreeRequirements(files)
           policies == LoadPolicies(files)
       IN  \E order \in Orders(CompletedSet(profile)) :
               report' = AuditWith(courses, degree_blocks, policies, profile, order)
    /\ UNCHANGED <<raw, credits, files, loaded, profile>>

Next == AuditStudentStep

Spec == Init /\ [][Next]_vars

\* ---- the loaders over every state of the source files ----
LoadFiles ==
    {Files(<<c1, c2>>, MissingFile, MissingFile) : c1, c2 \in CourseFileStates}
        \cup {Files(cs, d, pol) :
                cs \in {<<MissingFile, MissingFile>>, <<CatalogA, CatalogB>>},
                d \in DegreeFileStates, pol \in PolicyFileStates}

InitLoad ==
    /\ files \in LoadFiles
    /\ profile = [catalog_year |-> "2024-2025", courses_done |-> <<csci111>>]
    /\ report = NoReport
    /\ loaded = NothingLoaded
    /\ raw = NoneVal
    /\ credits = NotParsed

LoadCoursesStep ==
    /\ ~loaded.courses.set
    /\ loaded' = [loaded EXCEPT !.courses = Loaded(LoadCourses(files))]
    /\ UNCHANGED <<raw, credits, files, profile, report>>

LoadDegreeRequirementsStep ==
    /\ ~loaded.degree_blocks.set
    /\ loaded' = [loaded EXCEPT !.degree_blocks = Loaded(LoadDegreeRequirements(files))]
    /\ UNCHANGED <<raw, credits, files, profile, report>>

LoadPoliciesStep ==
    /\ ~loaded.policies.set
    /\ loaded' = [loaded EXCEPT !.policies = Loaded(LoadPolicies(files))]
    /\ UNCHANGED <<raw, credits, files, profile, report>>

\* the driver of tests/test_integration.py: the three loads, then the audit
AuditLoadedStep ==
    /\ loaded.courses.set /\ loaded.degree_blocks.set /\ loaded.policies.set
    /\ AuditStudentStep

NextLoad ==
    \/ LoadCoursesStep
    \/ LoadDegreeRequirementsStep
    \/ LoadPoliciesStep
    \/ AuditLoadedStep

SpecLoad == InitLoad /\ [][NextLoad]_vars

\* ---- _parse_credits over raw credit values ----
InitCredits ==
    /\ raw \in RawCredits
    /\ credits = NotParsed
    /\ files = NoFiles
    /\ profile = NoProfile
    /\ report = NoReport
    /\ loaded = NothingLoaded

ParseCreditsStep ==
    /\ ~credits.set
    /\ credits' = [set |-> TRUE, val |-> ParseCredits(raw)]
    /\ UNCHANGED <<raw, files, loaded, profile, report>>

NextCredits == ParseCreditsStep

SpecCredits == InitCredits /\ [][NextCredits]_vars

(***************************************************************************)
(* Credit parsing                                                          *)
(***************************************************************************)
\* s[a..b-1] is a non-empty run of digits
IsDigitRun(s, a, b) == a < b /\ \A k \in a..(b - 1) : IsDigit(s[k])

\* s[a..b-1] spells a number: digits, optionally followed by "." and digits
IsNumberText(s, a, b) ==
    \/ IsDigitRun(s, a, b)
    \/ \E d \in (a + 1)..(b - 2) : s[d] = "." /\ IsDigitRun(s, a, d) /\ IsDigitRun(s, d + 1, b)

\* s[a..b-1] is whitespace only (possibly empty)
IsSpaceRun(s, a, b) == a <= b /\ \A k \in a..(b - 1) : IsSpace(s[k])

\* s[a..b-1] spells the second half of a range: "-" and a number, spaces allowed
IsRangeText(s, a, b) ==
    \E p \in a..(b - 2) :
        /\ s[p] = "-"
        /\ IsSpaceRun(s, a, p)
        /\ \E q \in (p + 1)..(b - 1) : IsSpaceRun(s, p + 1, q) /\ IsNumberText(s, q, b)

\* the word "credit" in any letter case stands at w
IsCreditWord(s, w) ==
    w + 5 <= Len(s) /\ Upper(SubSeq(s, w, w + 5)) = <<"C", "R", "E", "D", "I", "T">>

\* a "<number> credit(s)" phrase starts at i and its first number is s[i..j-1]
IsCreditPhrase(s, i, j) ==
    /\ IsNumberText(s, i, j)
    /\ \E r \in j..Len(s) :
          /\ r = j \/ IsRangeText(s, j, r)
          /\ \E w \in (r + 1)..Len(s) : IsSpaceRun(s, r, w) /\ IsCreditWord(s, w)

NumberEnds(s, i) == {j \in (i + 1)..(Len(s) + 1) : IsDigit(s[j - 1])}

PhraseStarts(s) ==
    {i \in 1..Len(s) : IsDigit(s[i]) /\ \E j \in NumberEnds(s, i) : IsCreditPhrase(s, i, j)}

DigitPositions(s) == {i \in 1..Len(s) : IsDigit(s[i])}

Least(S) == CHOOSE x \in S : \A y \in S : x <= y

\* v is num/den cut to an integer toward zero
IsTruncation(v, num, den) ==
    IF num >= 0 THEN v * den <= num /\ num < (v + 1) * den
    ELSE (-v) * den <= -num /\ -num < (1 - v) * den

IsTruncationOfText(v, t) == IsTruncation(v, FloatOf(t).num, FloatOf(t).den)

\* C9: _parse_credits returns the truncation of a numeric value; for a text,
\* the truncated first number of the first "<number> credit(s)" phrase (a range
\* gives its first number), else the truncated first number anywhere in the
\* text, and 0 for None, the empty text and a text without digits.
C9_ParseCredits ==
    credits.set =>
        /\ raw.k = "none" => credits.val = 0
        /\ raw.k = "num" => IsTruncation(credits.val, raw.n, 10)
        /\ raw.k = "str" =>
              LET s == Strip(raw.s)
                  phrases == PhraseStarts(s)
                  digits == DigitPositions(s)
              IN  /\ digits = {} => credits.val = 0
                  /\ phrases # {} =>
                        \A j \in NumberEnds(s, Least(phrases)) :
                            IsCreditPhrase(s, Least(phrases), j)
                                => IsTruncationOfText(credits.val, SubSeq(s, Least(phrases), j - 1))
                  /\ phrases = {} /\ digits # {} =>
                        \A j \in NumberEnds(s, Least(digits)) :
                            (/\ IsNumberText(s, Least(digits), j)
                             /\ \A j2 \in NumberEnds(s, Least(digits)) :
                                    j2 > j => ~IsNumberText(s, Least(digits), j2))
                                => IsTruncationOfText(credits.val, SubSeq(s, Least(digits), j - 1))
        /\ raw = Str(ThreeCredits) => credits.val = 3
        /\ raw = Str(RangeCredits) => credits.val = 3
        /\ raw = Str(HalfCredits) => credits.val = 3
        /\ raw = Str(SeeAdvisor) => credits.val = 0
        /\ raw = Str(<<>>) => credits.val = 0

\* a range text was parsed to its first number
C9_Witness ==
    /\ credits.set
    /\ raw.k = "str"
    /\ \E i \in PhraseStarts(raw.s) : \E j \in NumberEnds(raw.s, i) :
          j <= Len(raw.s) /\ raw.s[j] = "-" /\ IsCreditPhrase(raw.s, i, j)
    /\ credits.val = 3

(***************************************************************************)
(* The audit report                                                        *)
(***************************************************************************)
\* the inputs of the audit: the catalog and the requirement blocks
Catalog == LoadCourses(files).val

Blocks == LoadDegreeRequirements(files).val

ReportReady == report.set /\ ~report.raised

\* the completed codes, upper-cased
UpperDone == {Upper(profile.courses_done[i]) : i \in 1..Len(profile.courses_done)}

\* the elements of seq at the positions in S, in order, from position i on
RECURSIVE Sel(_, _, _)
Sel(seq, S, i) ==
    IF i > Len(seq) THEN <<>>
    ELSE (IF i \in S THEN <<seq[i]>> ELSE <<>>) \o Sel(seq, S, i + 1)

Positions(reqs) == 1..Len(reqs)

NamesOf(reqs) == [i \in 1..Len(reqs) |-> reqs[i].name]

\* the sum of the credits of the requirements at the positions in S
RECURSIVE CreditsAt(_, _)
CreditsAt(reqs, S) ==
    IF S = {} THEN 0
    ELSE LET i == CHOOSE x \in S : TRUE IN reqs[i].credits + CreditsAt(reqs, S \ {i})

\* the lists record exactly the positions in S as completed, in block order
RecordsCompleted(st, reqs, S) ==
    /\ st.missing = Sel(NamesOf(reqs), Positions(reqs) \ S, 1)
    /\ Len(st.completed) = Cardinality(S)
    /\ \A k \in 1..Len(st.completed) :
          LET name == Sel(NamesOf(reqs), S, 1)[k]
          IN  \/ st.completed[k] = name
              \/ /\ StartsWith(st.completed[k], name \o <<" ", "(">>)
                 /\ st.completed[k][Len(st.completed[k])] = ")"

SameBlocks(blocks) ==
    Len(report.blocks) = Len(blocks) /\ \A b \in 1..Len(blocks) : report.blocks[b].name = blocks[b].name

\* C1: every requirement of a block, by position, produces exactly one entry,
\* in completed or in missing; the two lists together have one entry per
\* requirement and each keeps the order of the block.
C1_Partition ==
    ReportReady =>
        LET blocks == Blocks
        IN  /\ SameBlocks(blocks)
            /\ \A b \in 1..Len(blocks) :
              LET st == report.blocks[b].status
                  reqs == blocks[b].requirements
              IN  /\ Len(st.completed) + Len(st.missing) = Len(reqs)
                  /\ \E S \in SUBSET Positions(reqs) : RecordsCompleted(st, reqs, S)

\* a block with several requirements, some completed and some missing
C1_Witness ==
    /\ ReportReady
    /\ \E b \in 1..Len(Blocks) :
          /\ Len(Blocks[b].requirements) >= 2
          /\ report.blocks[b].status.completed # <<>>
          /\ report.blocks[b].status.missing # <<>>

\* the three strategies, as conditions on a requirement and the completed set
ByOption(req) ==
    req.options # <<>> /\ \E k \in 1..Len(req.options) : \E c \in UpperDone : Upper(req.options[k]) = c

ByName(req) == \E c \in UpperDone : Upper(req.name) = c

PrefixCodes(req) ==
    {c \in UpperDone : \E k \in 1..Len(req.allowed_prefixes) :
        Len(c) >= Len(req.allowed_prefixes[k])
        /\ \A n \in 1..Len(req.allowed_prefixes[k]) : c[n] = req.allowed_prefixes[k][n]}

ByPrefix(req) == req.allowed_prefixes # <<>> /\ PrefixCodes(req) # {}

SatPositions(reqs) == {i \in Positions(reqs) : ByOption(reqs[i]) \/ ByName(reqs[i]) \/ ByPrefix(reqs[i])}

\* C2: first match wins.  A requirement matched by an option or by its name is
\* recorded in completed under its plain name; one matched only by a prefix is
\* recorded as "<name> (<code>)" for a completed code with a listed prefix; any
\* other requirement is recorded in missing under its name.
C2_FirstMatchWins ==
    ReportReady =>
        LET blocks == Blocks
        IN  \A b \in 1..Len(blocks) :
            LET st == report.blocks[b].status
                reqs == blocks[b].requirements
                sat == Sel([i \in 1..Len(reqs) |-> i], SatPositions(reqs), 1)
            IN  /\ st.missing = Sel(NamesOf(reqs), Positions(reqs) \ SatPositions(reqs), 1)
                /\ Len(st.completed) = Len(sat)
                /\ \A k \in 1..Len(sat) :
                      LET req == reqs[sat[k]]
                      IN  IF ByOption(req) \/ ByName(req)
                          THEN st.completed[k] = req.name
                          ELSE \E c \in PrefixCodes(req) :
                                  st.completed[k] = req.name \o <<" ", "(">> \o c \o <<")">>

\* a requirement that matches by name and by prefix was recorded under its
\* plain name, and another one was recorded by prefix
C2_Witness ==
    /\ ReportReady
    /\ \E b \in 1..Len(Blocks) : \E i, j \in Positions(Blocks[b].requirements) :
          LET reqs == Blocks[b].requirements
          IN  /\ ~ByOption(reqs[i]) /\ ByName(reqs[i]) /\ ByPrefix(reqs[i])
              /\ ~ByOption(reqs[j]) /\ ~ByName(reqs[j]) /\ ByPrefix(reqs[j])
              /\ Len(report.blocks[b].status.completed) = 2

\* C3: a block's credits_done is the sum of the credits of exactly the
\* requirements recorded in completed, each counted once by position.
C3_BlockCreditsDone ==
    ReportReady =>
        LET blocks == Blocks
        IN  \A b \in 1..Len(blocks) :
            LET st == report.blocks[b].status
                reqs == blocks[b].requirements
            IN  /\ RecordsCompleted(st, reqs, SatPositions(reqs))
                /\ st.credits_done = CreditsAt(reqs, SatPositions(reqs))

\* a block with a completed and a missing requirement, both with credits
C3_Witness ==
    /\ ReportReady
    /\ \E b \in 1..Len(Blocks) :
          LET reqs == Blocks[b].requirements
          IN  /\ \E i \in SatPositions(reqs) : reqs[i].credits > 0
              /\ \E i \in Positions(reqs) \ SatPositions(reqs) : reqs[i].credits > 0
              /\ report.blocks[b].status.credits_done > 0

\* the catalog credits of the entries of done from position i on, counting an
\* entry only when no earlier entry has the same upper-cased form
RECURSIVE DoneCredits(_, _, _)
DoneCredits(catalog, done, i) ==
    IF i > Len(done) THEN 0
    ELSE (IF /\ Upper(done[i]) \in DOMAIN catalog
             /\ \A j \in 1..(i - 1) : Upper(done[j]) # Upper(done[i])
          THEN catalog[Upper(done[i])].credits
          ELSE 0) + DoneCredits(catalog, done, i + 1)

\* C5: the top-level credits_done is the sum of the catalog credits of the
\* distinct upper-cased completed codes that are in the catalog; it is not the
\* sum of the blocks' credits_done.
C5_TotalCreditsDone ==
    ReportReady => report.credits_done = DoneCredits(Catalog, profile.courses_done, 1)

\* a code given twice in different letter case, a code that is not in the
\* catalog, and a total that differs from the sum over the blocks
C5_Witness ==
    /\ ReportReady
    /\ \E i, j \in 1..Len(profile.courses_done) :
          /\ i < j
          /\ profile.courses_done[i] # profile.courses_done[j]
          /\ Upper(profile.courses_done[i]) = Upper(profile.courses_done[j])
          /\ Upper(profile.courses_done[i]) \in DOMAIN Catalog
    /\ report.credits_done = 3
    /\ \E b \in 1..Len(Blocks) : report.blocks[b].status.credits_done > 3

\* C7 as stated: in every block credits_done <= credits_required.
C7_Original ==
    ReportReady =>
        \A b \in 1..Len(report.blocks) :
            report.blocks[b].status.credits_done <= report.blocks[b].status.credits_required

\* C7, amended: credits_required is the sum of the credits of all requirements
\* of the block, and credits_done <= credits_required in every block none of
\* whose requirements has negative credits.
C7_NonNegativeBlocks ==
    ReportReady =>
        LET blocks == Blocks
        IN  \A b \in 1..Len(blocks) :
            LET st == report.blocks[b].status
                reqs == blocks[b].requirements
            IN  /\ st.credits_required = CreditsAt(reqs, Positions(reqs))
                /\ (\A i \in Positions(reqs) : reqs[i].credits >= 0)
                      => st.credits_done <= st.credits_required

\* a block without negative credits whose requirements are all satisfied
C7_Witness ==
    /\ ReportReady
    /\ \E b \in 1..Len(Blocks) :
          LET reqs == Blocks[b].requirements
          IN  /\ Len(reqs) >= 2
              /\ \A i \in Positions(reqs) : reqs[i].credits > 0
              /\ SatPositions(reqs) = Positions(reqs)
              /\ report.blocks[b].status.credits_done = report.blocks[b].status.credits_required

\* C4 as stated: with an empty catalog credits_done is 0 and every
\* requirement of every block is missing.
C4_Original ==
    (ReportReady /\ DOMAIN Catalog = {}) =>
        /\ report.credits_done = 0
        /\ \A b \in 1..Len(Blocks) :
              /\ report.blocks[b].status.completed = <<>>
              /\ report.blocks[b].status.missing = NamesOf(Blocks[b].requirements)

\* C4, amended: with an empty catalog credits_done is 0; the requirements are
\* matched against the completed codes as with any catalog, so the missing ones
\* are those that no completed code matches by option, name or prefix, and all
\* of them are missing when courses_done is empty.
C4_EmptyCatalog ==
    (ReportReady /\ DOMAIN Catalog = {}) =>
        LET blocks == Blocks
        IN  /\ report.credits_done = 0
            /\ \A b \in 1..Len(blocks) :
                  LET st == report.blocks[b].status
                      reqs == blocks[b].requirements
                  IN  /\ st.missing = Sel(NamesOf(reqs), Positions(reqs) \ SatPositions(reqs), 1)
                      /\ profile.courses_done = <<>> =>
                            (st.completed = <<>> /\ st.missing = NamesOf(reqs))

\* the course files are missing or unreadable, the student has completed
\* courses, and a block has a completed and a missing requirement
C4_Witness ==
    /\ ReportReady
    /\ DOMAIN Catalog = {}
    /\ \A k \in 1..Len(files.course_files) : files.course_files[k].st # "ok"
    /\ profile.courses_done # <<>>
    /\ report.credits_done = 0
    /\ \E b \in 1..Len(Blocks) :
          /\ report.blocks[b].status.completed # <<>>
          /\ report.blocks[b].status.missing # <<>>

\* a is a subsequence of b
RECURSIVE IsSubseq(_, _)
IsSubseq(a, b) ==
    IF a = <<>> THEN TRUE
    ELSE IF b = <<>> THEN FALSE
    ELSE IF Head(a) = Head(b) THEN IsSubseq(Tail(a), Tail(b))
    ELSE IsSubseq(a, Tail(b))

\* C10: for the same requirement blocks, the audit of a profile whose
\* completed set is a subset of this one's leaves every requirement missing
\* that is missing here: each block's missing list is a subsequence of the
\* smaller profile's missing list.
C10_Monotone ==
    ReportReady =>
        LET blocks == Blocks
        IN  \A A \in SUBSET UpperDone : \A order \in Orders(A) : \A b \in 1..Len(blocks) :
                LET smaller == AuditBlock(blocks[b], A, order).status
                IN  /\ IsSubseq(report.blocks[b].status.missing, smaller.missing)
                    /\ Len(smaller.completed) <= Len(report.blocks[b].status.completed)

\* a smaller completed set leaves strictly more requirements missing
C10_Witness ==
    /\ ReportReady
    /\ \E A \in SUBSET UpperDone : \E b \in 1..Len(Blocks) :
          /\ A # {}
          /\ Len(AuditBlock(Blocks[b], A, CHOOSE o \in Orders(A) : TRUE).status.missing)
                > Len(report.blocks[b].status.missing)
          /\ report.blocks[b].status.missing # <<>>

(***************************************************************************)
(* The loaders                                                             *)
(***************************************************************************)
\* the file holds a JSON list of course objects
IsCourseList(f) ==
    f.st = "ok" /\ f.json.kind = "list" /\ \A k \in 1..Len(f.json.items) : f.json.items[k].isdict

\* the file is missing, cannot be read, or is not JSON text
Unavailable(f) == f.st \in {"missing", "unreadable", "badjson"}

\* the records of the course files, in COURSE_FILES order and file order
RecordsOf(f) == IF IsCourseList(f) THEN f.json.items ELSE <<>>

AllRecords == RecordsOf(files.course_files[1]) \o RecordsOf(files.course_files[2])

Greatest(S) == CHOOSE x \in S : \A y \in S : y <= x

\* C8: last write wins.  After load_courses the catalog has exactly the
\* non-empty resolved codes of the records, and the entry of a code is the
\* normalised form of the last record that resolved to it, with no field of
\* an earlier record; duplicates raise nothing.
C8_LastWriteWins ==
    (/\ loaded.courses.set
     /\ \A k \in 1..Len(files.course_files) :
           \/ Unavailable(files.course_files[k])
           \/ IsCourseList(files.course_files[k])
           \/ files.course_files[k].json.kind = "null") =>
        LET recs == AllRecords
            catalog == loaded.courses.val
            norm == [i \in 1..Len(recs) |-> CourseOf(recs[i])]
        IN  /\ ~loaded.courses.raised
            /\ DOMAIN catalog = {norm[i].code : i \in 1..Len(recs)} \ {<<>>}
            /\ \A code \in DOMAIN catalog :
                  catalog[code] = norm[Greatest({i \in 1..Len(recs) : norm[i].code = code})]

\* two files give the same code with different credits and descriptions, a record without a code was skipped, and the catalog has
\* the later record
C8_Witness ==
    /\ loaded.courses.set
    /\ ~loaded.courses.raised
    /\ IsCourseList(files.course_files[1])
    /\ IsCourseList(files.course_files[2])
    /\ LET recs == AllRecords
       IN  /\ \E i \in 1..Len(recs) : CourseOf(recs[i]).code = <<>>
           /\ \E i \in 1..Len(files.course_files[1].json.items) :
                 \E j \in 1..Len(files.course_files[2].json.items) :
                    LET first == CourseOf(files.course_files[1].json.items[i])
                        second == CourseOf(files.course_files[2].json.items[j])
                    IN  /\ first.code = second.code
                        /\ first.code # <<>>
                        /\ first.credits # second.credits
                        /\ first.description # <<>>
                        /\ second.description = <<>>
                        /\ j = Len(files.course_files[2].json.items)
                        /\ loaded.courses.val[first.code] = second

\* the file holds the JSON the loader expects
IsDegreeDoc(f) == f.st = "ok" /\ f.json.kind = "dict"

IsPolicyDoc(f) == f.st = "ok" /\ f.json.kind = "dict"

\* C6: whatever the state of the source files, the three loaders return
\* without raising, the collection behind a missing or malformed file is
\* empty, and audit_student returns a report, with credits_required 127 when
\* no policy is available.
C6_NeverRaises ==
    /\ loaded.courses.set =>
          /\ ~loaded.courses.raised
          /\ (\A k \in 1..Len(files.course_files) : ~IsCourseList(files.course_files[k]))
                => DOMAIN loaded.courses.val = {}
    /\ loaded.degree_blocks.set =>
          /\ ~loaded.degree_blocks.raised
          /\ ~IsDegreeDoc(files.degree) => loaded.degree_blocks.val = <<>>
    /\ loaded.policies.set =>
          /\ ~loaded.policies.raised
          /\ ~IsPolicyDoc(files.policies) => loaded.policies.val = EmptyDict
    /\ report.set =>
          /\ ~report.raised
          /\ ~IsPolicyDoc(files.policies) => report.credits_required = DefaultMinTotalCredits

\* the part of C6 that the code has: files that are missing, unreadable or
\* not JSON text load as empty collections and the audit reports
C6_UnavailableFiles ==
    /\ (loaded.courses.set /\ \A k \in 1..Len(files.course_files) : Unavailable(files.course_files[k]))
          => (~loaded.courses.raised /\ DOMAIN loaded.courses.val = {})
    /\ (loaded.degree_blocks.set /\ Unavailable(files.degree))
          => (~loaded.degree_blocks.raised /\ loaded.degree_blocks.val = <<>>)
    /\ (loaded.policies.set /\ Unavailable(files.policies))
          => (~loaded.policies.raised /\ loaded.policies.val = EmptyDict)
    /\ (/\ report.set
        /\ \A k \in 1..Len(files.course_files) : Unavailable(files.course_files[k])
        /\ Unavailable(files.degree)
        /\ Unavailable(files.policies))
          => (/\ ~report.raised
              /\ report.credits_done = 0
              /\ report.blocks = <<>>
              /\ report.credits_required = DefaultMinTotalCredits)

====
